---- MODULE Spec2Model ----
(***************************************************************************)
(* Model of the Gridrr dashboard: the `Welcome` component (form, video     *)
(* selection, submission, website list, deletion, storage usage view) and  *)
(* the API module it calls (uploadVideo, saveWebsite, getWebsites,         *)
(* deleteWebsite, getStorageUsage) over Firebase Storage and Firestore.    *)
(*                                                                         *)
(* A string is a sequence of characters; a literal that the code never     *)
(* looks inside ("https://cdn.gridrr.com", "videos/") is one element.      *)
(* A nullable value is a sequence of length at most one (<<>> is null).    *)
(***************************************************************************)
EXTENDS Integers, Sequences, FiniteSets, TLC

\* ---------------------------------------------------------------- bounds
MaxSubmits == 3      \* handleSubmit invocations in one behaviour
MaxClock == 3        \* readings of Timestamp.now() range over 1..MaxClock
MaxStored == 3       \* objects already under "videos/" at start
MaxLegacy == 1       \* objects already under "websites/" at start
MaxStoredDocs == 2   \* documents already in the collection at start
FewSubmits == 1      \* handleSubmit invocations where one submission is followed
CallsSubmits == 2    \* handleSubmit invocations where two are followed
FewDeletes == 1      \* handleDeleteWebsite invocations where one is followed
MaxDeletes == 2      \* handleDeleteWebsite invocations in one behaviour
MaxNameLen == 2      \* UTF-16 units of a generated file name
MaxRawLen == 3       \* characters of a generated categories input

\* ------------------------------------------------------- program constants
EstimatedSize == 1048576          \* 1024 * 1024
MaxVideoSize == 104857600         \* 100 * 1024 * 1024

\* --------------------------------------------------------------- strings
Upper == {"A","B","C","D","E","F","G","H","I","J","K","L","M",
          "N","O","P","Q","R","S","T","U","V","W","X","Y","Z"}
Lower == {"a","b","c","d","e","f","g","h","i","j","k","l","m",
          "n","o","p","q","r","s","t","u","v","w","x","y","z"}
Digit == {"0","1","2","3","4","5","6","7","8","9"}
\* \w of a JavaScript regular expression without the u flag
WordChar == Upper \cup Lower \cup Digit \cup {"_"}
\* what String.prototype.trim removes (the members used here)
WhiteSpace == {" ", "\t", "\n"}

Null == "null"

StartsWith(s, p) == Len(s) >= Len(p) /\ SubSeq(s, 1, Len(p)) = p

\* file.name.replace(/[^\w\d.]/g, '_'): the hyphen left out of the class
CleanCharNoHyphen(c) == IF c \in WordChar \cup Digit \cup {"."} THEN c ELSE "_"

\* file.name.replace(/[^\w\d.-]/g, '_'), one UTF-16 unit at a time
CleanChar(c) == IF c \in WordChar \cup Digit \cup {".", "-"} THEN c ELSE "_"
CleanFileName(name) == [i \in 1..Len(name) |-> CleanChar(name[i])]

\* a storage path built from the file name alone
StoragePathNoToken(videoId, cleanFileName) == <<"videos/", "_">> \o cleanFileName

\* `videos/${videoId}_${cleanFileName}`
StoragePath(videoId, cleanFileName) == <<"videos/", videoId, "_">> \o cleanFileName

\* CdnUrl built without the folder of the storage path
CdnUrlNoFolder(videoId, cleanFileName) ==
    <<"https://cdn.gridrr.com", "/", videoId, "_">> \o cleanFileName

\* `https://cdn.gridrr.com/videos/${videoId}_${cleanFileName}`
CdnUrl(videoId, cleanFileName) ==
    <<"https://cdn.gridrr.com", "/", "videos/", videoId, "_">> \o cleanFileName

\* the part of a CDN URL after the host and its slash
UrlPath(url) == SubSeq(url, 3, Len(url))

\* crypto.randomUUID(): the n-th draw; draws never repeat
RandomUUID(n) == "uuid" \o ToString(n)

\* ---- categories: split(',').map(trim).filter(length > 0)
RECURSIVE Split(_, _)
Split(s, sep) ==
    IF \A i \in 1..Len(s) : s[i] # sep THEN <<s>>
    ELSE LET k == CHOOSE i \in 1..Len(s) :
                     s[i] = sep /\ \A j \in 1..(i - 1) : s[j] # sep
         IN <<SubSeq(s, 1, k - 1)>> \o Split(SubSeq(s, k + 1, Len(s)), sep)

RECURSIVE TrimStart(_)
TrimStart(s) ==
    IF s # <<>> /\ Head(s) \in WhiteSpace THEN TrimStart(Tail(s)) ELSE s

RECURSIVE TrimEnd(_)
TrimEnd(s) ==
    IF s # <<>> /\ s[Len(s)] \in WhiteSpace
    THEN TrimEnd(SubSeq(s, 1, Len(s) - 1)) ELSE s

Trim(s) == TrimEnd(TrimStart(s))

\* split(',').map(cat => cat.trim()) without the filter
ParseCategoriesNoFilter(raw) ==
    LET parts == Split(raw, ",")
    IN [i \in 1..Len(parts) |-> Trim(parts[i])]

ParseCategories(raw) ==
    LET parts == Split(raw, ",")
        trimmed == [i \in 1..Len(parts) |-> Trim(parts[i])]
    IN SelectSeq(trimmed, LAMBDA cat : Len(cat) > 0)

\* JavaScript truthiness of a string, and the spread `...(v && { k: v })`
Truthy(v) == v # <<>>
OptField(k, v) == IF Truthy(v) THEN [x \in {k} |-> v] ELSE <<>>

\* socialLinks with both fields always set
SocialLinksAlways(fd) ==
    [twitter |-> <<"https://twitter.com/">> \o fd.twitter,
     instagram |-> <<"https://instagram.com/">> \o fd.instagram]

\* socialLinks of websiteData
SocialLinks(fd) ==
    OptField("twitter",
             IF Truthy(fd.twitter) THEN <<"https://twitter.com/">> \o fd.twitter ELSE <<>>)
    @@ OptField("instagram",
             IF Truthy(fd.instagram) THEN <<"https://instagram.com/">> \o fd.instagram
             ELSE <<>>)

\* websiteData with `videoUrl: videoUrl || ''` in place of the spread
WebsiteDataOfAlwaysVideo(fd, videoUrl) ==
    [name |-> fd.name,
     url |-> fd.url,
     categories |-> ParseCategories(fd.categories),
     socialLinks |-> SocialLinks(fd),
     builtWith |-> fd.builtWith,
     videoUrl |-> IF videoUrl # <<>> THEN videoUrl[1] ELSE <<>>]
    @@ OptField("otherTechnologies", fd.otherTechnologies)

\* websiteData of handleSubmit; videoUrl is nullable (<<>> is undefined)
WebsiteDataOf(fd, videoUrl) ==
    [name |-> fd.name,
     url |-> fd.url,
     categories |-> ParseCategories(fd.categories),
     socialLinks |-> SocialLinks(fd),
     builtWith |-> fd.builtWith]
    @@ OptField("otherTechnologies", fd.otherTechnologies)
    @@ (IF videoUrl # <<>> /\ Truthy(videoUrl[1]) THEN [videoUrl |-> videoUrl[1]] ELSE <<>>)

\* websiteWithMetadata with `uploadedAt: new Timestamp(0, 0)`
WithMetadataEpoch(websiteData, now) == [uploadedAt |-> 0] @@ websiteData

\* websiteWithMetadata of saveWebsite: { ...websiteData, uploadedAt: Timestamp.now() }
WithMetadata(websiteData, now) == [uploadedAt |-> now] @@ websiteData

\* ---- errors
\* what a call to Firebase Storage or Firestore rejects with
StoreError(code) == [name |-> "FirebaseError", code |-> code]

\* the catch of uploadVideo rethrowing what it caught
UploadVideoErrorVerbatim(error) == error

\* the catch of uploadVideo: throw new Error('Failed to upload video')
UploadVideoError(error) == [name |-> "Error", message |-> "Failed to upload video"]

\* a catch of saveWebsite in the manner of the other API functions:
\* throw new Error('Failed to save website')
SaveWebsiteErrorGeneric(error) == [name |-> "Error", message |-> "Failed to save website"]

\* the catch of saveWebsite: throw error
SaveWebsiteError(error) == error

\* the catch of getWebsites: throw new Error('Failed to fetch websites')
GetWebsitesError(error) == [name |-> "Error", message |-> "Failed to fetch websites"]

\* the catch of deleteWebsite: throw new Error('Failed to delete website')
DeleteWebsiteError(error) == [name |-> "Error", message |-> "Failed to delete website"]

\* ------------------------------------------------------------ input sets
EmptyForm ==
    [name |-> <<>>, url |-> <<>>, categories |-> <<>>, twitter |-> <<>>,
     instagram |-> <<>>, builtWith |-> <<>>, otherTechnologies |-> <<>>]

FormFields == DOMAIN EmptyForm

\* the values typed into each input of the form
InputValues(field) ==
    CASE field = "name" -> {<<>>, <<"S">>}
      [] field = "url" -> {<<>>, <<"u">>}
      [] field = "twitter" -> {<<>>, <<"a", "l">>}
      [] OTHER -> {<<>>}

VideoMp4 == <<"v", "i", "d", "e", "o", "/", "m", "p", "4">>
ImagePng == <<"i", "m", "a", "g", "e", "/", "p", "n", "g">>

\* the files offered to the file input
Files ==
    {[name |-> <<"a", " ", "b">>, type |-> VideoMp4, size |-> 1000],
     [name |-> <<"a", "_", "b">>, type |-> VideoMp4, size |-> MaxVideoSize],
     [name |-> <<"c">>, type |-> ImagePng, size |-> 1000],
     [name |-> <<"d">>, type |-> VideoMp4, size |-> MaxVideoSize + 1]}

\* the reasons for which the stores reject a call
Causes == {"network", "quota", "permission"}
OneCause == {"network"}

\* file names: every name of at most MaxNameLen units over a letter, a digit,
\* the three punctuation marks of the class, a space and the two surrogate
\* units of a character outside the basic plane; and one longer name
NameUnits == {"y", "1", ".", "-", "_", " ", "U+D83D", "U+DE00"}
LongName == <<"M", "y", " ", "V", "i", "d", "e", "o", " ", "(", "1", ")",
              ".", "m", "p", "4">>
Names == UNION {[1..k -> NameUnits] : k \in 1..MaxNameLen} \cup {LongName}
NamedFiles == {[name |-> n, type |-> VideoMp4, size |-> 1000] : n \in Names}

\* what is typed into the categories input: every text of at most MaxRawLen
\* characters over the comma, two kinds of white space and two letters; and
\* "portfolio, , blog ," with its two words as units
RawUnits == {",", " ", "\t", "a", "b"}
RawExample == <<"portfolio", ",", " ", ",", " ", "blog", " ", ",">>
RawCategories == UNION {[1..k -> RawUnits] : k \in 0..MaxRawLen} \cup {RawExample}

\* what is typed into the twitter and instagram inputs
Handles == {<<>>, <<"alice">>, <<" ">>}

Tabs == {"data", "websites", "designs"}
Folders == <<"videos/", "websites/">>
Times == 1..MaxClock
DocId(n) == "doc" \o ToString(n)
DocIds == {DocId(n) : n \in 1..(MaxStoredDocs + MaxSubmits)}

\* objects found in the bucket when the component is constructed: v videos
\* of earlier sessions, w objects under "websites/"
StoredBlobs(v, w) ==
    {<<"videos/", "old" \o ToString(i), "_", "x">> : i \in 1..v}
    \cup {<<"websites/", "site" \o ToString(i)>> : i \in 1..w}

\* documents saved by earlier sessions, without a video, at any clock readings
StoredForm == [EmptyForm EXCEPT !.name = <<"S">>, !.url = <<"u">>]
StoredCatalogs ==
    UNION {[{DocId(i) : i \in 1..n} ->
              {WithMetadata(WebsiteDataOf(StoredForm, <<>>), t) : t \in Times}]
           : n \in 0..MaxStoredDocs}

\* ----------------------------------------------------------------- state
VARIABLES
    envConfigured,     \* VITE_FIREBASE_API_KEY and VITE_FIREBASE_PROJECT_ID are set
    catalog,           \* Firestore collection 'websites': document id -> data
    blobs,             \* Firebase Storage: the full paths of the stored objects
    activeTab, websites, isSubmitting, submitMessage, formData, videoFile,
    isUploadingVideo, isDeleting, storageUsage, isLoadingStorage,
    sub,               \* the handleSubmit invocation
    loads,             \* the loadWebsites invocations: on mount and after a save
    dels,              \* deleteWebsite calls in flight, per document id
    usage,             \* the getStorageUsage invocation
    count,             \* how many submissions, uuids, documents, deletes so far
    run,               \* history of the current submission
    calls,             \* history: calls issued (getWebsites: invocations;
                       \* deleteRejected: deleteDoc calls the store rejected;
                       \* deletedAbsent: deleteDoc calls resolved for no document;
                       \* putKeys: the storage path of every uploadBytes call;
                       \* stamps: document id -> the reading of Timestamp.now()
                       \* by its saveWebsite call and the reading of the
                       \* store's clock when it created the document;
                       \* thrown: per API function, each error the store
                       \* rejected a call with and the error the function threw)
    docPut             \* history: document id -> storage key put by its submission

vars == <<envConfigured, catalog, blobs, activeTab, websites, isSubmitting,
          submitMessage, formData, videoFile, isUploadingVideo, isDeleting,
          storageUsage, isLoadingStorage, sub, loads, dels, usage, count, run,
          calls, docPut>>

backendVars == <<catalog, blobs>>
formVars == <<formData, videoFile>>
usageVars == <<storageUsage, isLoadingStorage, usage>>
listVars == <<websites, loads>>
delVars == <<dels, isDeleting>>

IdleSub == [pc |-> "Idle", formData |-> EmptyForm, videoId |-> "",
            cleanFileName |-> <<>>, storagePath |-> <<>>, pending |-> <<>>]
IdleLoad == [pc |-> "idle", fetched |-> <<>>, read |-> <<>>]
IdleUsage == [pc |-> "idle", next |-> 1, totalFileCount |-> 0, totalSize |-> 0,
              folderStats |-> <<>>, listed |-> <<>>]
NewRun == [puts |-> 0, inserts |-> 0, hadVideo |-> FALSE, upload |-> "none",
           save |-> "none", putKey |-> <<>>, docsBefore |-> 0, now |-> <<>>,
           file |-> <<>>, form |-> <<>>]

\* the component after construction, the bucket holding `stored` and the
\* collection `docs`
InitWith(stored, docs) ==
    /\ envConfigured \in BOOLEAN
    /\ catalog = docs
    /\ blobs = stored
    /\ activeTab = "websites"
    /\ websites = <<>>
    /\ isSubmitting = FALSE
    /\ submitMessage = Null
    /\ formData = EmptyForm
    /\ videoFile = <<>>
    /\ isUploadingVideo = FALSE
    /\ isDeleting = Null
    /\ storageUsage = <<>>
    /\ isLoadingStorage = FALSE
    /\ sub = IdleSub
    \* useEffect(() => { loadWebsites(); }, []): getWebsites is in flight
    /\ loads = [l \in {"mount", "submit"} |->
                  IF l = "mount" THEN [IdleLoad EXCEPT !.pc = "getDocs"] ELSE IdleLoad]
    /\ dels = [id \in DocIds |-> 0]
    /\ usage = IdleUsage
    /\ count = [submits |-> 0, uuids |-> 0, docs |-> Cardinality(DOMAIN docs),
                deletes |-> 0]
    /\ run = NewRun
    /\ calls = [put |-> 0, insert |-> 0, getWebsites |-> 1, getDocs |-> 1,
                deleteDoc |-> 0, deleteRejected |-> 0, deletedAbsent |-> 0,
                putKeys |-> <<>>, stamps |-> <<>>,
                thrown |-> [fn \in {"uploadVideo", "saveWebsite", "getWebsites",
                                    "deleteWebsite"} |-> {}]]
    /\ docPut = [id \in DOMAIN docs |-> <<>>]

Init ==
    \E v \in 0..MaxStored : \E w \in 0..MaxLegacy : \E docs \in StoredCatalogs :
       InitWith(StoredBlobs(v, w), docs)

\* ------------------------------------------------------------- messages
MsgInvalidType == "Please select a valid video file"
MsgTooLarge == "Video file must be smaller than 100MB"
MsgNoConfig == "Firebase configuration is missing."
MsgUploadFailed == "Failed to upload video. Please try again."
MsgSaved == "Website saved successfully!"
MsgSaveError == "Error saving website. Please try again."
MsgDeleted == "Website deleted successfully!"
MsgDeleteError == "Error deleting website. Please try again."

\* the history after API function fn caught `raised` and threw `thrown`
Threw(c, fn, raised, thrown) ==
    [c EXCEPT !.thrown[fn] = @ \cup {[raised |-> raised, thrown |-> thrown]}]

\* ------------------------------------------------------ form and video
\* handleInputChange: setFormData(prev => ({ ...prev, [name]: value }))
HandleInputChange(field, value) ==
    /\ activeTab = "websites"
    /\ formData' = [formData EXCEPT ![field] = value]
    /\ UNCHANGED <<envConfigured, backendVars, activeTab, websites, isSubmitting,
                   submitMessage, videoFile, isUploadingVideo, delVars, usageVars,
                   sub, loads, count, run, calls, docPut>>

\* handleVideoFileChange without the size check
HandleVideoFileChangeNoSizeCheck(file) ==
    /\ activeTab = "websites"
    /\ IF ~StartsWith(file.type, <<"v", "i", "d", "e", "o", "/">>)
       THEN submitMessage' = MsgInvalidType /\ UNCHANGED videoFile
       ELSE videoFile' = <<file>> /\ submitMessage' = Null
    /\ UNCHANGED <<envConfigured, backendVars, activeTab, websites, isSubmitting,
                   formData, isUploadingVideo, delVars, usageVars, sub, loads,
                   count, run, calls, docPut>>

\* handleVideoFileChange with e.target.files[0] = file
HandleVideoFileChange(file) ==
    /\ activeTab = "websites"
    /\ IF ~StartsWith(file.type, <<"v", "i", "d", "e", "o", "/">>)
       THEN submitMessage' = MsgInvalidType /\ UNCHANGED videoFile
       ELSE IF file.size > MaxVideoSize
       THEN submitMessage' = MsgTooLarge /\ UNCHANGED videoFile
       ELSE videoFile' = <<file>> /\ submitMessage' = Null
    /\ UNCHANGED <<envConfigured, backendVars, activeTab, websites, isSubmitting,
                   formData, isUploadingVideo, delVars, usageVars, sub, loads,
                   count, run, calls, docPut>>

\* ------------------------------------------------------------ submission
\* the submit button is enabled, the required inputs are filled
CanSubmit ==
    /\ activeTab = "websites"
    /\ ~(isSubmitting \/ isUploadingVideo)
    /\ formData.name # <<>>
    /\ formData.url # <<>>

StartRun(hadVideo) ==
    [NewRun EXCEPT !.hadVideo = hadVideo, !.docsBefore = count.docs,
                   !.form = <<formData>>]

\* the submit invocation returns with no `finally`
FinishSubmitNoFinally(pc) ==
    /\ isSubmitting' = isSubmitting
    /\ sub' = [IdleSub EXCEPT !.pc = pc]

\* the submit invocation returns: `finally { setIsSubmitting(false) }`
FinishSubmit(pc) ==
    /\ isSubmitting' = FALSE
    /\ sub' = [IdleSub EXCEPT !.pc = pc]

\* handleSubmit, configuration missing: message, return, finally
HandleSubmitNoConfig ==
    /\ CanSubmit
    /\ ~envConfigured
    /\ submitMessage' = MsgNoConfig
    /\ FinishSubmit("Failed")
    /\ count' = [count EXCEPT !.submits = @ + 1]
    /\ run' = StartRun(videoFile # <<>>)
    /\ UNCHANGED <<envConfigured, backendVars, activeTab, websites, formVars,
                   isUploadingVideo, delVars, usageVars, loads, calls, docPut>>

\* saveWebsite(websiteData) up to `await addDoc(...)`: the handleSubmit state
\* and history after the call, uploadedAt read from the client clock as `now`
\* (the configuration test of saveWebsite passes: handleSubmit made the same
\* test before calling)
CallSaveWebsite(websiteData, now, r) ==
    /\ sub' = [IdleSub EXCEPT !.pc = "Persisting",
                              !.pending = <<WithMetadata(websiteData, now)>>]
    /\ run' = [r EXCEPT !.inserts = @ + 1, !.now = <<now>>]
    /\ calls' = [calls EXCEPT !.insert = @ + 1]

\* handleSubmit that does not look at the selected video
HandleSubmitVideoSkipsUpload ==
    /\ CanSubmit
    /\ envConfigured
    /\ videoFile # <<>>
    /\ CallSaveWebsite(WebsiteDataOf(formData, <<>>), 1, StartRun(TRUE))
    /\ isSubmitting' = TRUE
    /\ submitMessage' = Null
    /\ count' = [count EXCEPT !.submits = @ + 1]
    /\ UNCHANGED <<envConfigured, backendVars, activeTab, websites, formVars,
                   isUploadingVideo, delVars, usageVars, loads, docPut>>

\* handleSubmit with a video selected, up to `await uploadBytes(videoRef, file)`
HandleSubmitVideo ==
    /\ CanSubmit
    /\ envConfigured
    /\ videoFile # <<>>
    /\ LET videoId == RandomUUID(count.uuids + 1)
           cleanFileName == CleanFileName(videoFile[1].name)
           storagePath == StoragePath(videoId, cleanFileName)
       IN /\ sub' = [IdleSub EXCEPT !.pc = "VideoUploading", !.formData = formData,
                                    !.videoId = videoId,
                                    !.cleanFileName = cleanFileName,
                                    !.storagePath = storagePath]
          /\ run' = [StartRun(TRUE) EXCEPT !.puts = 1, !.putKey = <<storagePath>>,
                                           !.file = videoFile]
          /\ calls' = [calls EXCEPT !.put = @ + 1,
                                    !.putKeys = Append(@, storagePath)]
    /\ isSubmitting' = TRUE
    /\ submitMessage' = Null
    /\ isUploadingVideo' = TRUE
    /\ count' = [count EXCEPT !.submits = @ + 1, !.uuids = @ + 1]
    /\ UNCHANGED <<envConfigured, backendVars, activeTab, websites, formVars,
                   delVars, usageVars, loads, docPut>>

\* handleSubmit with no video selected, up to `await addDoc(...)`
HandleSubmitNoVideo(now) ==
    /\ CanSubmit
    /\ envConfigured
    /\ videoFile = <<>>
    /\ CallSaveWebsite(WebsiteDataOf(formData, <<>>), now, StartRun(FALSE))
    /\ isSubmitting' = TRUE
    /\ submitMessage' = Null
    /\ count' = [count EXCEPT !.submits = @ + 1]
    /\ UNCHANGED <<envConfigured, backendVars, activeTab, websites, formVars,
                   isUploadingVideo, delVars, usageVars, loads, docPut>>

\* uploadBytes resolves: uploadVideo returns cdnUrl, handleSubmit goes on to
\* saveWebsite
UploadVideoOk(now) ==
    /\ sub.pc = "VideoUploading"
    /\ blobs' = blobs \cup {sub.storagePath}
    /\ isUploadingVideo' = FALSE
    /\ LET videoUrl == CdnUrl(sub.videoId, sub.cleanFileName)
       IN CallSaveWebsite(WebsiteDataOf(sub.formData, <<videoUrl>>), now,
                          [run EXCEPT !.upload = "ok"])
    /\ UNCHANGED <<envConfigured, catalog, activeTab, websites, isSubmitting,
                   submitMessage, formVars, delVars, usageVars, loads, count,
                   docPut>>

\* the catch of the upload without its `return`: the entry is saved anyway
UploadVideoFailContinues(cause) ==
    /\ sub.pc = "VideoUploading"
    /\ submitMessage' = MsgUploadFailed
    /\ isUploadingVideo' = FALSE
    /\ CallSaveWebsite(WebsiteDataOf(sub.formData, <<>>), 1,
                       [run EXCEPT !.upload = "failed"])
    /\ UNCHANGED <<envConfigured, backendVars, activeTab, websites, isSubmitting,
                   formVars, delVars, usageVars, loads, count, docPut>>

\* uploadBytes rejects: uploadVideo throws, handleSubmit reports and returns
UploadVideoFail(cause) ==
    /\ sub.pc = "VideoUploading"
    /\ submitMessage' = MsgUploadFailed
    /\ isUploadingVideo' = FALSE
    /\ FinishSubmit("Failed")
    /\ run' = [run EXCEPT !.upload = "failed"]
    /\ calls' = Threw(calls, "uploadVideo", StoreError(cause),
                      UploadVideoError(StoreError(cause)))
    /\ UNCHANGED <<envConfigured, backendVars, activeTab, websites, formVars,
                   delVars, usageVars, loads, count, docPut>>

\* addDoc resolves, the store having created the document when its own clock
\* read serverNow: saveWebsite returns the id, handleSubmit resets the form
\* and calls loadWebsites
SaveWebsiteOk(serverNow) ==
    /\ sub.pc = "Persisting"
    /\ LET id == DocId(count.docs + 1)
       IN /\ catalog' = (id :> sub.pending[1]) @@ catalog
          /\ docPut' = (id :> run.putKey) @@ docPut
          /\ calls' = [calls EXCEPT
                !.getDocs = @ + 1, !.getWebsites = @ + 1,
                !.stamps = (id :> [client |-> run.now[1], server |-> serverNow]) @@ @]
    /\ submitMessage' = MsgSaved
    /\ formData' = EmptyForm
    /\ videoFile' = <<>>
    /\ sub' = [IdleSub EXCEPT !.pc = "Reloading"]
    /\ loads' = [loads EXCEPT !["submit"] = [IdleLoad EXCEPT !.pc = "getDocs"]]
    /\ count' = [count EXCEPT !.docs = @ + 1]
    /\ run' = [run EXCEPT !.save = "ok"]
    /\ UNCHANGED <<envConfigured, blobs, activeTab, websites, isSubmitting,
                   isUploadingVideo, delVars, usageVars>>

\* a failed save that removes the video it uploaded
SaveWebsiteFailCleansUp(cause) ==
    /\ sub.pc = "Persisting"
    /\ submitMessage' = MsgSaveError
    /\ FinishSubmit("Failed")
    /\ run' = [run EXCEPT !.save = "failed"]
    /\ blobs' = blobs \ {run.putKey[i] : i \in DOMAIN run.putKey}
    /\ UNCHANGED <<envConfigured, catalog, activeTab, websites, formVars,
                   isUploadingVideo, delVars, usageVars, loads, count, calls,
                   docPut>>

\* a failed save that calls addDoc once more before giving up
SaveWebsiteFailRetries(cause) ==
    /\ sub.pc = "Persisting"
    /\ IF run.inserts < 2
       THEN /\ run' = [run EXCEPT !.inserts = @ + 1]
            /\ calls' = [calls EXCEPT !.insert = @ + 1]
            /\ UNCHANGED <<sub, isSubmitting, submitMessage>>
       ELSE /\ submitMessage' = MsgSaveError
            /\ FinishSubmit("Failed")
            /\ run' = [run EXCEPT !.save = "failed"]
            /\ UNCHANGED calls
    /\ UNCHANGED <<envConfigured, backendVars, activeTab, websites, formVars,
                   isUploadingVideo, delVars, usageVars, loads, count, docPut>>

\* a failed save with the reset of the form in the `finally`
SaveWebsiteFailResets(cause) ==
    /\ sub.pc = "Persisting"
    /\ submitMessage' = MsgSaveError
    /\ FinishSubmit("Failed")
    /\ run' = [run EXCEPT !.save = "failed"]
    /\ formData' = EmptyForm
    /\ videoFile' = <<>>
    /\ calls' = Threw(calls, "saveWebsite", StoreError(cause),
                      SaveWebsiteError(StoreError(cause)))
    /\ UNCHANGED <<envConfigured, backendVars, activeTab, websites,
                   isUploadingVideo, delVars, usageVars, loads, count, docPut>>

\* addDoc rejects: saveWebsite rethrows, handleSubmit reports
SaveWebsiteFail(cause) ==
    /\ sub.pc = "Persisting"
    /\ submitMessage' = MsgSaveError
    /\ FinishSubmit("Failed")
    /\ run' = [run EXCEPT !.save = "failed"]
    /\ calls' = Threw(calls, "saveWebsite", StoreError(cause),
                      SaveWebsiteError(StoreError(cause)))
    /\ UNCHANGED <<envConfigured, backendVars, activeTab, websites, formVars,
                   isUploadingVideo, delVars, usageVars, loads, count, docPut>>

\* ------------------------------------------------------------ the list
IdRank(id) == CHOOSE n \in 1..(MaxStoredDocs + MaxSubmits) : DocId(n) = id

\* orderBy('uploadedAt', 'asc')
BeforeAscending(docs, a, b) ==
    \/ docs[a].uploadedAt < docs[b].uploadedAt
    \/ docs[a].uploadedAt = docs[b].uploadedAt /\ IdRank(a) < IdRank(b)

\* orderBy('uploadedAt', 'desc'): a before b; equal times by document name
Before(docs, a, b) ==
    \/ docs[a].uploadedAt > docs[b].uploadedAt
    \/ docs[a].uploadedAt = docs[b].uploadedAt /\ IdRank(a) > IdRank(b)

RECURSIVE OrderByUploadedAtDesc(_, _)
OrderByUploadedAtDesc(docs, ids) ==
    IF ids = {} THEN <<>>
    ELSE LET first == CHOOSE a \in ids : \A b \in ids \ {a} : Before(docs, a, b)
         IN <<first>> \o OrderByUploadedAtDesc(docs, ids \ {first})

\* getWebsites: querySnapshot.docs.map(doc => ({ id: doc.id, ...doc.data() }))
GetWebsites(docs) ==
    LET order == OrderByUploadedAtDesc(docs, DOMAIN docs)
    IN [i \in 1..Len(order) |-> docs[order[i]] @@ [id |-> order[i]]]

\* loadWebsites returns; the one awaited by handleSubmit lets it finish
AfterLoad(l) ==
    IF l = "submit"
    THEN FinishSubmit("Done")
    ELSE UNCHANGED <<isSubmitting, sub>>

\* getDocs resolves at the server: the snapshot travels back
GetDocsOk(l) ==
    /\ loads[l].pc = "getDocs"
    /\ loads' = [loads EXCEPT ![l] = [pc |-> "fetched",
                                      fetched |-> GetWebsites(catalog),
                                      read |-> catalog]]
    /\ UNCHANGED <<envConfigured, backendVars, activeTab, websites, isSubmitting,
                   submitMessage, formVars, isUploadingVideo, delVars, usageVars,
                   sub, count, run, calls, docPut>>

\* getWebsites returns: setWebsites(fetchedWebsites)
LoadWebsitesReturn(l) ==
    /\ loads[l].pc = "fetched"
    /\ websites' = loads[l].fetched
    /\ loads' = [loads EXCEPT ![l] = IdleLoad]
    /\ AfterLoad(l)
    /\ UNCHANGED <<envConfigured, backendVars, activeTab, submitMessage, formVars,
                   isUploadingVideo, delVars, usageVars, count, run, calls, docPut>>

\* getDocs rejects: getWebsites throws, loadWebsites logs
GetDocsFail(l, cause) ==
    /\ loads[l].pc = "getDocs"
    /\ loads' = [loads EXCEPT ![l] = IdleLoad]
    /\ AfterLoad(l)
    /\ calls' = Threw(calls, "getWebsites", StoreError(cause),
                      GetWebsitesError(StoreError(cause)))
    /\ UNCHANGED <<envConfigured, backendVars, activeTab, websites, submitMessage,
                   formVars, isUploadingVideo, delVars, usageVars, count, run,
                   docPut>>

\* ------------------------------------------------------------- deletion
Displayed == {websites[i].id : i \in 1..Len(websites)}

\* handleDeleteWebsite(websiteId), confirmed, up to `await deleteDoc(...)`
HandleDeleteWebsite(websiteId) ==
    /\ activeTab = "data"
    /\ websiteId \in Displayed
    /\ isDeleting # websiteId
    /\ isDeleting' = websiteId
    /\ dels' = [dels EXCEPT ![websiteId] = @ + 1]
    /\ count' = [count EXCEPT !.deletes = @ + 1]
    /\ calls' = [calls EXCEPT !.deleteDoc = @ + 1]
    /\ UNCHANGED <<envConfigured, backendVars, activeTab, websites, isSubmitting,
                   submitMessage, formVars, isUploadingVideo, usageVars, sub,
                   loads, run, docPut>>

Without(f, x) == [y \in DOMAIN f \ {x} |-> f[y]]

\* a deleteWebsite that reads the document first and throws when it is absent
DeleteWebsiteOkStrict(websiteId) ==
    /\ dels[websiteId] > 0
    /\ IF websiteId \in DOMAIN catalog
       THEN /\ catalog' = Without(catalog, websiteId)
            /\ docPut' = Without(docPut, websiteId)
            /\ websites' = SelectSeq(websites, LAMBDA website : website.id # websiteId)
            /\ submitMessage' = MsgDeleted
       ELSE /\ submitMessage' = MsgDeleteError
            /\ UNCHANGED <<catalog, docPut, websites>>
    /\ isDeleting' = Null
    /\ dels' = [dels EXCEPT ![websiteId] = @ - 1]
    /\ UNCHANGED <<envConfigured, blobs, activeTab, isSubmitting, formVars,
                   isUploadingVideo, usageVars, sub, loads, count, run, calls>>

\* deleteDoc resolves (also when the document does not exist)
DeleteWebsiteOk(websiteId) ==
    /\ dels[websiteId] > 0
    /\ catalog' = Without(catalog, websiteId)
    /\ docPut' = Without(docPut, websiteId)
    /\ websites' = SelectSeq(websites, LAMBDA website : website.id # websiteId)
    /\ submitMessage' = MsgDeleted
    /\ isDeleting' = Null
    /\ dels' = [dels EXCEPT ![websiteId] = @ - 1]
    /\ calls' = [calls EXCEPT !.deletedAbsent =
                     IF websiteId \in DOMAIN catalog THEN @ ELSE @ + 1]
    /\ UNCHANGED <<envConfigured, blobs, activeTab, isSubmitting, formVars,
                   isUploadingVideo, usageVars, sub, loads, count, run>>

\* deleteDoc rejects: deleteWebsite throws, handleDeleteWebsite reports
DeleteWebsiteFail(websiteId, cause) ==
    /\ dels[websiteId] > 0
    /\ submitMessage' = MsgDeleteError
    /\ isDeleting' = Null
    /\ dels' = [dels EXCEPT ![websiteId] = @ - 1]
    /\ calls' = Threw([calls EXCEPT !.deleteRejected = @ + 1], "deleteWebsite",
                      StoreError(cause), DeleteWebsiteError(StoreError(cause)))
    /\ UNCHANGED <<envConfigured, backendVars, activeTab, websites, isSubmitting,
                   formVars, isUploadingVideo, usageVars, sub, loads, count, run,
                   docPut>>

\* -------------------------------------------------------- storage usage
\* listAll(ref(storage, folder)).items
ListAll(folder) == {b \in blobs : b[1] = folder}

\* result.items.forEach(item => { folderSize += estimatedSize })
RECURSIVE FolderSize(_)
FolderSize(items) ==
    IF items = {} THEN 0
    ELSE LET item == CHOOSE i \in items : TRUE
         IN EstimatedSize + FolderSize(items \ {item})

\* loadStorageUsage up to the first `await listAll(folderRef)`
StartStorageUsage ==
    /\ isLoadingStorage' = TRUE
    /\ usage' = [IdleUsage EXCEPT !.pc = "listAll"]
    /\ UNCHANGED storageUsage

\* the Refresh button
LoadStorageUsage ==
    /\ activeTab = "data"
    /\ ~isLoadingStorage
    /\ StartStorageUsage
    /\ UNCHANGED <<envConfigured, backendVars, activeTab, websites, isSubmitting,
                   submitMessage, formVars, isUploadingVideo, delVars, sub, loads,
                   count, run, calls, docPut>>

\* a tab button; selecting 'data' runs the effect that calls loadStorageUsage
\* (one getStorageUsage call is followed at a time: a call started while
\* another is in flight is left out)
SetActiveTab(tab) ==
    /\ tab # activeTab
    /\ activeTab' = tab
    /\ IF tab = "data" /\ usage.pc = "idle"
       THEN StartStorageUsage
       ELSE UNCHANGED usageVars
    /\ UNCHANGED <<envConfigured, backendVars, websites, isSubmitting,
                   submitMessage, formVars, isUploadingVideo, delVars, sub, loads,
                   count, run, calls, docPut>>

\* the for loop of getStorageUsage after one folder: the next listAll, or the
\* return to loadStorageUsage (setStorageUsage, finally)
AfterFolder(u) ==
    IF u.next < Len(Folders)
    THEN /\ usage' = [u EXCEPT !.next = @ + 1]
         /\ UNCHANGED <<storageUsage, isLoadingStorage>>
    ELSE /\ storageUsage' = <<[fileCount |-> u.totalFileCount,
                               totalSize |-> u.totalSize,
                               folders |-> u.folderStats]>>
         /\ isLoadingStorage' = FALSE
         /\ usage' = [IdleUsage EXCEPT !.listed = u.listed]

\* listAll resolves, the total size assigned where the code adds to it
ListFolderOkAssignsTotal ==
    /\ usage.pc = "listAll"
    /\ LET folder == Folders[usage.next]
           items == ListAll(folder)
           folderSize == FolderSize(items)
       IN AfterFolder([usage EXCEPT
             !.folderStats = (folder :> [count |-> Cardinality(items),
                                         size |-> folderSize]) @@ @,
             !.totalFileCount = @ + Cardinality(items),
             !.totalSize = folderSize,
             !.listed = (folder :> [ok |-> TRUE, items |-> Cardinality(items)]) @@ @])
    /\ UNCHANGED <<envConfigured, backendVars, activeTab, websites, isSubmitting,
                   submitMessage, formVars, isUploadingVideo, delVars, sub, loads,
                   count, run, calls, docPut>>

\* listAll resolves for the current folder
ListFolderOk ==
    /\ usage.pc = "listAll"
    /\ LET folder == Folders[usage.next]
           items == ListAll(folder)
           folderSize == FolderSize(items)
       IN AfterFolder([usage EXCEPT
             !.folderStats = (folder :> [count |-> Cardinality(items),
                                         size |-> folderSize]) @@ @,
             !.totalFileCount = @ + Cardinality(items),
             !.totalSize = @ + folderSize,
             !.listed = (folder :> [ok |-> TRUE, items |-> Cardinality(items)]) @@ @])
    /\ UNCHANGED <<envConfigured, backendVars, activeTab, websites, isSubmitting,
                   submitMessage, formVars, isUploadingVideo, delVars, sub, loads,
                   count, run, calls, docPut>>

\* listAll rejects with no inner try: getStorageUsage throws, loadStorageUsage
\* logs and keeps the report it had
ListFolderFailAborts ==
    /\ usage.pc = "listAll"
    /\ LET folder == Folders[usage.next]
       IN usage' = [IdleUsage EXCEPT
             !.listed = (folder :> [ok |-> FALSE, items |-> 0]) @@ usage.listed]
    /\ isLoadingStorage' = FALSE
    /\ UNCHANGED <<envConfigured, backendVars, activeTab, websites, isSubmitting,
                   submitMessage, formVars, isUploadingVideo, delVars, sub, loads,
                   count, run, calls, docPut, storageUsage>>

\* listAll rejects for the current folder: the inner catch
ListFolderFail ==
    /\ usage.pc = "listAll"
    /\ LET folder == Folders[usage.next]
       IN AfterFolder([usage EXCEPT
             !.folderStats = (folder :> [count |-> 0, size |-> 0]) @@ @,
             !.listed = (folder :> [ok |-> FALSE, items |-> 0]) @@ @])
    /\ UNCHANGED <<envConfigured, backendVars, activeTab, websites, isSubmitting,
                   submitMessage, formVars, isUploadingVideo, delVars, sub, loads,
                   count, run, calls, docPut>>

\* ------------------------------------------------------------------ next
ValidFiles == {f \in Files : StartsWith(f.type, <<"v", "i", "d", "e", "o", "/">>)
                             /\ f.size <= MaxVideoSize}

\* one of them
OneVideo == {f \in ValidFiles : f.size < MaxVideoSize}

\* the operator fills inputs of the form
FormStep(fields) ==
    \E field \in fields : \E value \in InputValues(field) :
       HandleInputChange(field, value)

\* the operator fills one input of the form with one of `values`
InputStep(field, values) == \E value \in values : HandleInputChange(field, value)

\* the operator picks a file
VideoStep(files) == \E file \in files : HandleVideoFileChange(file)

\* a submission without a video, of at most `limit` submissions
PlainSubmitStep(times, limit) ==
    \E now \in times : count.submits < limit /\ HandleSubmitNoVideo(now)

\* a submission with a video and the outcome of its upload
VideoSubmitStep(times, limit, causes) ==
    \/ count.submits < limit /\ HandleSubmitVideo
    \/ \E now \in times : UploadVideoOk(now)
    \/ \E cause \in causes : UploadVideoFail(cause)

NoConfigStep(limit) == count.submits < limit /\ HandleSubmitNoConfig

SaveStep(times, causes) ==
    \/ \E serverNow \in times : SaveWebsiteOk(serverNow)
    \/ \E cause \in causes : SaveWebsiteFail(cause)

LoadStep(causes) ==
    \E l \in DOMAIN loads :
       \/ GetDocsOk(l)
       \/ LoadWebsitesReturn(l)
       \/ \E cause \in causes : GetDocsFail(l, cause)

DeleteStep(limit, causes) ==
    \E id \in DocIds :
       \/ count.deletes < limit /\ HandleDeleteWebsite(id)
       \/ DeleteWebsiteOk(id)
       \/ \E cause \in causes : DeleteWebsiteFail(id, cause)

UsageStep == LoadStorageUsage \/ ListFolderOk \/ ListFolderFail

TabStep(tabs) == \E tab \in tabs : SetActiveTab(tab)

Next ==
    \/ FormStep(FormFields)
    \/ VideoStep(Files)
    \/ NoConfigStep(MaxSubmits)
    \/ PlainSubmitStep(Times, MaxSubmits)
    \/ VideoSubmitStep(Times, MaxSubmits, Causes)
    \/ SaveStep(Times, Causes)
    \/ LoadStep(Causes)
    \/ DeleteStep(MaxDeletes, Causes)
    \/ UsageStep
    \/ TabStep(Tabs)

Spec == Init /\ [][Next]_vars

\* the submission flow alone: the form tab stays selected, one clock reading,
\* an empty bucket
NextSubmit ==
    \/ FormStep({"name", "url"})
    \/ VideoStep(ValidFiles)
    \/ NoConfigStep(MaxSubmits)
    \/ PlainSubmitStep({1}, MaxSubmits)
    \/ VideoSubmitStep({1}, MaxSubmits, OneCause)
    \/ SaveStep({1}, OneCause)
    \/ LoadStep(OneCause)

SpecSubmit == InitWith({}, <<>>) /\ [][NextSubmit]_vars

\* the list: a collection filled by earlier sessions, a submission without a
\* video at any clock reading, a deletion from the data tab
NextList ==
    \/ FormStep({"name", "url"})
    \/ PlainSubmitStep(Times, FewSubmits)
    \/ SaveStep({1}, OneCause)
    \/ LoadStep(OneCause)
    \/ DeleteStep(FewDeletes, OneCause)
    \/ TabStep({"websites", "data"})

SpecList == (\E docs \in StoredCatalogs : InitWith({}, docs)) /\ [][NextList]_vars

\* deletions: submissions without a video at one clock reading, deletions
\* from the data tab
NextDelete ==
    \/ FormStep({"name", "url"})
    \/ PlainSubmitStep({1}, MaxSubmits)
    \/ SaveStep({1}, OneCause)
    \/ LoadStep(OneCause)
    \/ DeleteStep(MaxDeletes, OneCause)
    \/ TabStep({"websites", "data"})

SpecDelete == InitWith({}, <<>>) /\ [][NextDelete]_vars

\* every call the component makes to the stores: submissions with and without
\* a video (one file) at one clock reading, the list, a deletion
NextCalls ==
    \/ FormStep({"name", "url"})
    \/ VideoStep(OneVideo)
    \/ PlainSubmitStep({1}, CallsSubmits)
    \/ VideoSubmitStep({1}, CallsSubmits, OneCause)
    \/ SaveStep({1}, OneCause)
    \/ LoadStep(OneCause)
    \/ DeleteStep(FewDeletes, OneCause)
    \/ TabStep({"websites", "data"})

SpecCalls == InitWith({}, <<>>) /\ [][NextCalls]_vars

\* the clocks: a submission with or without a video, the client's clock and
\* the store's clock read independently
NextClock ==
    \/ FormStep({"name", "url"})
    \/ VideoStep(ValidFiles)
    \/ PlainSubmitStep(Times, FewSubmits)
    \/ VideoSubmitStep(Times, FewSubmits, OneCause)
    \/ SaveStep(Times, OneCause)
    \/ LoadStep(OneCause)

SpecClock == InitWith({}, <<>>) /\ [][NextClock]_vars

\* failed uploads: submissions with a video, uploadBytes rejecting for any of
\* the causes
NextIngest ==
    \/ FormStep({"name", "url"})
    \/ VideoStep(ValidFiles)
    \/ VideoSubmitStep({1}, CallsSubmits, Causes)
    \/ SaveStep({1}, OneCause)
    \/ LoadStep(OneCause)

SpecIngest == InitWith({}, <<>>) /\ [][NextIngest]_vars

\* failures of the document store: submissions without a video, the list, a
\* deletion, each store call rejecting for any of the causes
NextPersist ==
    \/ FormStep({"name", "url"})
    \/ PlainSubmitStep({1}, CallsSubmits)
    \/ SaveStep({1}, Causes)
    \/ LoadStep(Causes)
    \/ DeleteStep(FewDeletes, Causes)
    \/ TabStep({"websites", "data"})

SpecPersist == InitWith({}, <<>>) /\ [][NextPersist]_vars

\* file names: a video of any of the names is picked, then submitted
NextNames ==
    \/ FormStep({"name", "url"})
    \/ count.submits = 0 /\ VideoStep(NamedFiles)
    \/ VideoSubmitStep({1}, FewSubmits, OneCause)
    \/ SaveStep({1}, OneCause)

SpecNames == InitWith({}, <<>>) /\ [][NextNames]_vars

\* the categories of an entry: the categories are typed, then the form is
\* submitted without a video
NextEntry ==
    \/ FormStep({"name", "url"})
    \/ count.submits = 0 /\ InputStep("categories", RawCategories)
    \/ PlainSubmitStep({1}, FewSubmits)
    \/ SaveStep({1}, OneCause)

SpecEntry == InitWith({}, <<>>) /\ [][NextEntry]_vars

\* the social links of an entry: handles and other inputs are typed at any
\* time, the form is submitted with or without a video
NextLinks ==
    \/ FormStep({"name", "url"})
    \/ InputStep("twitter", Handles)
    \/ InputStep("instagram", Handles)
    \/ VideoStep(ValidFiles)
    \/ PlainSubmitStep({1}, CallsSubmits)
    \/ VideoSubmitStep({1}, CallsSubmits, OneCause)
    \/ SaveStep({1}, OneCause)

SpecLinks == InitWith({}, <<>>) /\ [][NextLinks]_vars

\* the video held: files of any type and size are picked at any time,
\* submissions with a video
NextVideo ==
    \/ FormStep({"name", "url"})
    \/ VideoStep(Files)
    \/ VideoSubmitStep({1}, CallsSubmits, OneCause)
    \/ SaveStep({1}, OneCause)
    \/ LoadStep(OneCause)

SpecVideo == InitWith({}, <<>>) /\ [][NextVideo]_vars

\* a deletion while lists are loading: a submission without a video, the
\* list loads of the mount and of the submission, a deletion from the data
\* tab, whose storage usage view loads as well
NextRace ==
    \/ FormStep({"name", "url"})
    \/ PlainSubmitStep({1}, FewSubmits)
    \/ SaveStep({1}, OneCause)
    \/ LoadStep(OneCause)
    \/ DeleteStep(FewDeletes, OneCause)
    \/ UsageStep
    \/ TabStep({"websites", "data"})

SpecRace == InitWith({}, <<>>) /\ [][NextRace]_vars

\* a submission to its end: every path of handleSubmit, each call to a store
\* returning or throwing in the end
NextFinish ==
    \/ FormStep({"name", "url"})
    \/ VideoStep(OneVideo)
    \/ NoConfigStep(FewSubmits)
    \/ PlainSubmitStep({1}, FewSubmits)
    \/ VideoSubmitStep({1}, FewSubmits, OneCause)
    \/ SaveStep({1}, OneCause)
    \/ LoadStep(OneCause)

\* uploadBytes, addDoc and getDocs return or throw
UploadReturns ==
    \/ \E now \in {1} : UploadVideoOk(now)
    \/ \E cause \in OneCause : UploadVideoFail(cause)

SpecFinish ==
    /\ InitWith({}, <<>>)
    /\ [][NextFinish]_vars
    /\ WF_vars(UploadReturns)
    /\ WF_vars(SaveStep({1}, OneCause))
    /\ WF_vars(LoadStep(OneCause))

\* the storage usage view: an upload may land while usage is computed; the
\* website list stays as it is (no getDocs call returns)
NextUsage ==
    \/ FormStep({"name", "url"})
    \/ VideoStep(ValidFiles)
    \/ VideoSubmitStep({1}, FewSubmits, OneCause)
    \/ SaveStep({1}, OneCause)
    \/ UsageStep
    \/ TabStep({"websites", "data"})

SpecUsage ==
    /\ \E v \in 0..MaxStored : \E w \in 0..MaxLegacy : InitWith(StoredBlobs(v, w), <<>>)
    /\ [][NextUsage]_vars

\* =============================================================== claims
HasVideoUrl(entry) == "videoUrl" \in DOMAIN entry

\* C1: when the upload of a submission's video fails, saveWebsite is not
\* called for that submission: it ends Failed and no document was created.
C1_FailedUploadNeverSaves ==
    run.upload = "failed" =>
        /\ run.inserts = 0
        /\ run.save = "none"
        /\ sub.pc = "Failed"
        /\ count.docs = run.docsBefore

C1_Witness == run.hadVideo /\ run.upload = "failed" /\ sub.pc = "Failed"

C3_NoVideoNoUrlNoPut ==
    /\ ~run.hadVideo =>
          /\ run.puts = 0
          /\ run.putKey = <<>>
          /\ sub.pc = "Persisting" => ~HasVideoUrl(sub.pending[1])
    /\ \A id \in DOMAIN catalog : docPut[id] = <<>> => ~HasVideoUrl(catalog[id])

C3_Witness ==
    /\ ~run.hadVideo
    /\ run.save = "ok"
    /\ \E id \in DOMAIN catalog : docPut[id] = <<>> /\ ~HasVideoUrl(catalog[id])

\* C8: when saveWebsite fails after the video upload succeeded, the
\* submission ends Failed, no document was created, and the blob stays in the
\* bucket although no document refers to it.
C8_FailedSaveLeavesOrphan ==
    (run.upload = "ok" /\ run.save = "failed") =>
        /\ sub.pc = "Failed"
        /\ count.docs = run.docsBefore
        /\ run.putKey[1] \in blobs
        /\ \A id \in DOMAIN catalog :
              HasVideoUrl(catalog[id]) => UrlPath(catalog[id].videoUrl) # run.putKey[1]

C8_Witness ==
    /\ run.upload = "ok"
    /\ run.save = "failed"
    /\ run.putKey[1] \in blobs
    /\ sub.pc = "Failed"

\* ---- C9: the states of a submission
Phase(pc) == IF pc = "Reloading" THEN "Done" ELSE pc

\* a step that starts a submission
Starts == count'.submits # count.submits

\* the state the step leaves: a new submission leaves Idle
PhaseFrom == IF Starts THEN "Idle" ELSE Phase(sub.pc)

ClaimedTransitions ==
    {<<"Idle", "VideoUploading">>, <<"Idle", "Persisting">>,
     <<"VideoUploading", "Persisting">>, <<"VideoUploading", "Failed">>,
     <<"Persisting", "Done">>, <<"Persisting", "Failed">>}

SubmissionStep(transitions, always) ==
    (Starts \/ Phase(sub'.pc) # Phase(sub.pc)) =>
        /\ <<PhaseFrom, Phase(sub'.pc)>> \in transitions
        /\ (Starts /\ (always \/ envConfigured)) =>
              (Phase(sub'.pc) = "VideoUploading" <=> videoFile # <<>>)
        /\ Phase(sub'.pc) = "VideoUploading" => videoFile # <<>>
        /\ (Phase(sub'.pc) = "Persisting" /\ run'.hadVideo) =>
              (PhaseFrom = "VideoUploading" /\ run'.upload = "ok")
        /\ Phase(sub'.pc) = "Done" => (PhaseFrom = "Persisting" /\ run'.save = "ok")

\* C9 as stated: every step of a submission is one of Idle -> VideoUploading,
\* Idle -> Persisting, VideoUploading -> Persisting | Failed, Persisting ->
\* Done | Failed; VideoUploading is entered exactly when a video is attached.
C9_AsStated == [][SubmissionStep(ClaimedTransitions, TRUE)]_vars

\* C9 amended: the same, except that with the Firebase configuration missing
\* a submission goes from Idle to Failed at once, video attached or not.
C9_SubmissionStates ==
    [][/\ SubmissionStep(ClaimedTransitions \cup {<<"Idle", "Failed">>}, FALSE)
       /\ (Starts /\ Phase(sub'.pc) = "Failed") => ~envConfigured
       /\ (Starts /\ ~envConfigured) => Phase(sub'.pc) = "Failed"]_vars

C9_Witness == run.hadVideo /\ run.upload = "ok" /\ run.save = "ok" /\ sub.pc = "Done"

\* ---- C4, C5: the report of getStorageUsage
FolderSet == {Folders[i] : i \in 1..Len(Folders)}

\* the getStorageUsage call that produced storageUsage has returned and
\* no other has started
Reported == usage.pc = "idle" /\ usage.listed # <<>>

\* C4: a getStorageUsage call whose listings have all resolved or rejected has
\* returned a report; a folder whose listing rejected has {count: 0, size: 0}
\* and every other folder has what its own listing found, whatever happened
\* to the rest.
C4_FolderFailureIsolated ==
    Reported =>
        /\ storageUsage # <<>>
        /\ ~isLoadingStorage
        /\ DOMAIN usage.listed = FolderSet
        /\ DOMAIN storageUsage[1].folders = FolderSet
        /\ \A f \in FolderSet :
              storageUsage[1].folders[f] =
                 IF usage.listed[f].ok
                 THEN [count |-> usage.listed[f].items,
                       size |-> usage.listed[f].items * 1048576]
                 ELSE [count |-> 0, size |-> 0]

C4_Witness ==
    /\ Reported
    /\ ~usage.listed["websites/"].ok
    /\ usage.listed["videos/"].ok
    /\ storageUsage[1].folders["videos/"].count = 3
    /\ storageUsage[1].folders["websites/"] = [count |-> 0, size |-> 0]

RECURSIVE SumOver(_, _, _)
SumOver(stats, fs, field) ==
    IF fs = {} THEN 0
    ELSE LET f == CHOOSE x \in fs : TRUE
         IN stats[f][field] + SumOver(stats, fs \ {f}, field)

\* C5: in every report each folder's size is its count times 1 MiB,
\* fileCount is the sum of the counts, totalSize the sum of the sizes, and
\* every configured folder has an entry.
C5_ReportSums ==
    storageUsage # <<>> =>
        LET r == storageUsage[1]
        IN /\ DOMAIN r.folders = FolderSet
           /\ \A f \in FolderSet : r.folders[f].size = r.folders[f].count * 1048576
           /\ r.fileCount = SumOver(r.folders, FolderSet, "count")
           /\ r.totalSize = SumOver(r.folders, FolderSet, "size")

C5_Witness ==
    /\ storageUsage # <<>>
    /\ usage.listed # <<>>
    /\ usage.listed["videos/"].ok
    /\ usage.listed["websites/"].ok
    /\ storageUsage[1].folders["videos/"].count = 3
    /\ storageUsage[1].fileCount = 3
    /\ storageUsage[1].totalSize = 3 * 1048576
    /\ storageUsage[1].folders["websites/"] = [count |-> 0, size |-> 0]

\* ---- C6: the list
\* C6: what getWebsites returns is every document of the collection, once,
\* with its id, newest uploadedAt first.
C6_ListedNewestFirst ==
    \A l \in DOMAIN loads :
       loads[l].pc = "fetched" =>
          LET r == loads[l].fetched
              c == loads[l].read
          IN /\ Len(r) = Cardinality(DOMAIN c)
             /\ {r[i].id : i \in 1..Len(r)} = DOMAIN c
             /\ \A i \in 1..Len(r) : r[i] = [id |-> r[i].id] @@ c[r[i].id]
             /\ \A i, j \in 1..Len(r) : i < j => r[i].uploadedAt >= r[j].uploadedAt

\* three documents created at t1 < t2 < t3, in that order, listed t3, t2, t1
C6_Witness ==
    \E l \in DOMAIN loads :
       /\ loads[l].pc = "fetched"
       /\ Len(loads[l].fetched) = 3
       /\ <<loads[l].fetched[1].id, loads[l].fetched[2].id, loads[l].fetched[3].id>>
            = <<DocId(3), DocId(2), DocId(1)>>
       /\ loads[l].fetched[1].uploadedAt > loads[l].fetched[2].uploadedAt
       /\ loads[l].fetched[2].uploadedAt > loads[l].fetched[3].uploadedAt
       /\ count.submits = 1

\* ---- C7: deleting what is not there
\* a step in which a deleteWebsite(id) call returns
Returns(id) == dels'[id] < dels[id]

\* C7: a deleteWebsite call for an id that is not in the collection leaves the
\* collection as it is and, unless the store rejects the call, ends without
\* an error; any deleteWebsite call that ends without an error leaves the id
\* absent, so a second delete changes nothing.
C7_DeleteAbsentIsNoop ==
    [][\A id \in DocIds :
          Returns(id) =>
             /\ id \notin DOMAIN catalog =>
                   /\ catalog' = catalog
                   /\ calls'.deleteRejected = calls.deleteRejected =>
                         submitMessage' = MsgDeleted
             /\ submitMessage' = MsgDeleted =>
                   catalog' = [d \in DOMAIN catalog \ {id} |-> catalog[d]]]_vars

C7_Witness ==
    /\ calls.deletedAbsent > 0
    /\ submitMessage = MsgDeleted
    /\ count.deletes = 2

\* ---- C10: no retries
\* C10: a submission makes at most one uploadBytes call and at most one addDoc
\* call, and none after it is Done or Failed until the next submission starts;
\* every getWebsites invocation makes one getDocs call and every deleteWebsite
\* invocation one deleteDoc call.
C10_NoRetry ==
    /\ [](/\ run.puts <= 1
          /\ run.inserts <= 1
          /\ calls.put <= count.submits
          /\ calls.insert <= count.submits
          /\ calls.getDocs = calls.getWebsites
          /\ calls.deleteDoc = count.deletes)
    /\ [][(Phase(sub.pc) \in {"Done", "Failed"} /\ ~Starts) =>
             /\ calls'.put = calls.put
             /\ calls'.insert = calls.insert
             /\ blobs' = blobs
             /\ DOMAIN catalog' \subseteq DOMAIN catalog]_vars

C10_Witness ==
    /\ count.submits = 2
    /\ count.deletes = 1
    /\ sub.pc = "Failed"
    /\ run.puts = 1
    /\ run.inserts = 1
    /\ run.save = "failed"
    /\ calls.getWebsites = 2

\* ---- C11: storage keys
\* a step in which the upload of the current submission lands in the bucket
Lands == sub.pc = "VideoUploading" /\ run'.upload = "ok"

\* C11: with a fresh token drawn by every uploadVideo call, the storage paths
\* of any two calls differ, also for files of the same name, and an upload
\* that lands adds an object under a path that held none: it overwrites
\* nothing an earlier upload wrote.
C11_KeysCollisionFree ==
    /\ [](\A i, j \in 1..Len(calls.putKeys) :
            i # j => calls.putKeys[i] # calls.putKeys[j])
    /\ [][Lands => /\ sub.storagePath \notin blobs
                   /\ blobs' = blobs \cup {sub.storagePath}
                   /\ Cardinality(blobs') = Cardinality(blobs) + 1]_vars

\* three uploads of files whose sanitized names are equal, all three stored
C11_Witness ==
    /\ Len(calls.putKeys) = 3
    /\ Cardinality(blobs) = 3
    /\ \A i \in 1..3 : SubSeq(calls.putKeys[i], 3, Len(calls.putKeys[i]))
                           = <<"_", "a", "_", "b">>

\* ---- C13: the error of a failed upload
\* C13 as stated: the error uploadVideo throws when uploadBytes rejects names
\* what the store rejected the upload with, so that uploads rejected for
\* different causes throw different errors.
C13_AsStated ==
    \A e, f \in calls.thrown["uploadVideo"] :
       e.raised # f.raised => e.thrown # f.thrown

\* C13 amended: whatever uploadBytes rejects with, uploadVideo throws the same
\* Error('Failed to upload video'), which does not carry the cause, and the
\* submission ends Failed.
C13_GenericUploadError ==
    /\ \A e \in calls.thrown["uploadVideo"] :
          /\ e.thrown = [name |-> "Error", message |-> "Failed to upload video"]
          /\ "code" \notin DOMAIN e.thrown
    /\ run.upload = "failed" =>
          /\ calls.thrown["uploadVideo"] # {}
          /\ sub.pc = "Failed"

\* two uploads rejected for different causes
C13_Witness ==
    /\ run.upload = "failed"
    /\ \E e, f \in calls.thrown["uploadVideo"] :
          e.raised.code = "network" /\ f.raised.code = "quota" /\ e.thrown = f.thrown

\* ---- C14: failures of the document store
StoreFunctions == {"saveWebsite", "getWebsites", "deleteWebsite"}

\* a step in which addDoc, getDocs or deleteDoc rejects
Rejects ==
    \/ run.save # "failed" /\ run'.save = "failed"
    \/ \E l \in DOMAIN loads : loads[l].pc = "getDocs" /\ loads'[l].pc = "idle"
    \/ calls'.deleteRejected # calls.deleteRejected

\* a rejected call leaves the collection as it is and is not made again
RejectedOnce ==
    Rejects =>
       /\ catalog' = catalog
       /\ calls'.insert = calls.insert
       /\ calls'.getDocs = calls.getDocs
       /\ calls'.deleteDoc = calls.deleteDoc

\* C14 as stated: saveWebsite, getWebsites and deleteWebsite each throw the
\* error value the store rejected the call with; the collection is left as
\* it was and the call is not made again.
C14_AsStated ==
    /\ [](\A fn \in StoreFunctions : \A e \in calls.thrown[fn] : e.thrown = e.raised)
    /\ [][RejectedOnce]_vars

\* C14 amended: saveWebsite throws the error value the store rejected addDoc
\* with; getWebsites and deleteWebsite throw a new Error with a fixed message
\* ('Failed to fetch websites', 'Failed to delete website') whatever the store
\* rejected with; the collection is left as it was and the call is not made
\* again.
C14_PersistenceFailureSurfaced ==
    /\ [](/\ \A e \in calls.thrown["saveWebsite"] : e.thrown = e.raised
          /\ \A e \in calls.thrown["getWebsites"] :
                e.thrown = [name |-> "Error", message |-> "Failed to fetch websites"]
          /\ \A e \in calls.thrown["deleteWebsite"] :
                e.thrown = [name |-> "Error", message |-> "Failed to delete website"])
    /\ [][RejectedOnce]_vars

\* all three have failed; the document whose deletion was rejected is there
C14_Witness ==
    /\ \E e \in calls.thrown["saveWebsite"] : e.raised.code = "permission"
    /\ \E e \in calls.thrown["getWebsites"] : e.raised.code = "network"
    /\ \E e \in calls.thrown["deleteWebsite"] : e.raised.code = "quota"
    /\ calls.deleteRejected = 1
    /\ DOMAIN catalog = {DocId(1)}

\* ---- C15: the sanitized file name
AllowedUnits == Upper \cup Lower \cup Digit \cup {".", "_", "-"}

\* the file name part of a storage path
NameOfPath(path) == SubSeq(path, 4, Len(path))

\* C15: the file name part of the storage path of an upload has the length of
\* the file's name (in UTF-16 units), holds the unit of the name wherever that
\* unit is in [A-Za-z0-9._-] and '_' elsewhere, so holds only such units, and
\* sanitizing it again changes nothing; "My Video (1).mp4" gives
\* "My_Video__1_.mp4".
C15_Sanitized ==
    run.file # <<>> =>
       LET name == run.file[1].name
           clean == NameOfPath(run.putKey[1])
       IN /\ Len(clean) = Len(name)
          /\ \A i \in 1..Len(name) :
                clean[i] = IF name[i] \in AllowedUnits THEN name[i] ELSE "_"
          /\ \A i \in 1..Len(clean) : clean[i] \in AllowedUnits
          /\ CleanFileName(clean) = clean
          /\ name = LongName =>
                clean = <<"M", "y", "_", "V", "i", "d", "e", "o", "_", "_", "1", "_",
                          ".", "m", "p", "4">>

C15_Witness ==
    /\ run.file # <<>>
    /\ run.file[1].name = LongName
    /\ run.upload = "ok"
    /\ run.putKey[1] \in blobs

\* ---- C16: categories
Blank == {" ", "\t", "\n"}

\* the places where raw is cut: before it, at each comma, after it
Cuts(raw) == {0, Len(raw) + 1} \cup {i \in 1..Len(raw) : raw[i] = ","}

\* the segments of raw between neighbouring cuts that are not all blank, as
\* pairs <<a, b>> of cuts
Segments(raw) ==
    {p \in Cuts(raw) \X Cuts(raw) :
        /\ p[1] < p[2]
        /\ \A c \in Cuts(raw) : ~(p[1] < c /\ c < p[2])
        /\ \E i \in (p[1] + 1)..(p[2] - 1) : raw[i] \notin Blank}

\* a segment without the blanks around it
Core(raw, p) ==
    LET inside == {i \in (p[1] + 1)..(p[2] - 1) : raw[i] \notin Blank}
        first == CHOOSE i \in inside : \A j \in inside : i <= j
        last == CHOOSE i \in inside : \A j \in inside : j <= i
    IN SubSeq(raw, first, last)

\* cats lists the cores of the segments of raw, in the order of raw
ListsSegments(cats, raw) ==
    /\ Len(cats) = Cardinality(Segments(raw))
    /\ \A p \in Segments(raw) :
          cats[Cardinality({q \in Segments(raw) : q[1] <= p[1]})] = Core(raw, p)

Tidy(cats) ==
    \A i \in 1..Len(cats) :
       /\ cats[i] # <<>>
       /\ cats[i][1] \notin Blank
       /\ cats[i][Len(cats[i])] \notin Blank
       /\ \A j \in 1..Len(cats[i]) : cats[i][j] # ","

\* C16: the categories of the entry handed to saveWebsite are the segments of
\* the categories input between commas, each without the white space around
\* it, those left empty dropped, in the order of the input; "portfolio, ,
\* blog ," gives ["portfolio", "blog"]; no categories list sent or persisted
\* holds an empty string or one with white space at either end.
C16_CategoriesParsed ==
    /\ sub.pc = "Persisting" =>
          /\ ListsSegments(sub.pending[1].categories, run.form[1].categories)
          /\ Tidy(sub.pending[1].categories)
          /\ run.form[1].categories = RawExample =>
                sub.pending[1].categories = <<<<"portfolio">>, <<"blog">>>>
    /\ \A id \in DOMAIN catalog : Tidy(catalog[id].categories)

C16_Witness ==
    /\ run.form # <<>>
    /\ run.form[1].categories = RawExample
    /\ \E id \in DOMAIN catalog :
          catalog[id].categories = <<<<"portfolio">>, <<"blog">>>>

\* ---- C17: social links
\* links has field k exactly when handle is not empty, and then host + handle
LinkFor(links, k, host, handle) ==
    IF handle = <<>>
    THEN k \notin DOMAIN links
    ELSE k \in DOMAIN links /\ links[k] = <<host>> \o handle

Acceptable(file) ==
    /\ Len(file.type) >= 6
    /\ SubSeq(file.type, 1, 6) = <<"v", "i", "d", "e", "o", "/">>
    /\ file.size <= 104857600

\* C18: the video held is absent or a file whose type starts with "video/"
\* and whose size is at most 104857600 bytes, and so is every file handed to
\* uploadVideo; a selection that is rejected leaves the held file as it was.
C18_HeldVideoAcceptable ==
    /\ [](/\ videoFile # <<>> => Acceptable(videoFile[1])
          /\ run.file # <<>> => Acceptable(run.file[1]))
    /\ [][submitMessage' \in {MsgInvalidType, MsgTooLarge} => videoFile' = videoFile]_vars

\* a file of exactly 100 MiB went to uploadVideo; one of the wrong type was
\* picked after a smaller video, which is still held
C18_Witness ==
    /\ run.file # <<>>
    /\ run.file[1].size = 104857600
    /\ run.upload = "failed"
    /\ submitMessage = MsgInvalidType
    /\ videoFile # <<>>
    /\ videoFile[1].size = 1000

\* ---- C19: a deletion and a list load in flight
\* no handler is waiting for a call to return
Quiescent ==
    /\ sub.pc \in {"Idle", "Done", "Failed"}
    /\ \A l \in DOMAIN loads : loads[l].pc = "idle"
    /\ \A id \in DocIds : dels[id] = 0
    /\ usage.pc = "idle"

\* the documents created and no longer in the collection: those a
\* deleteWebsite call has removed (ids are not given twice)
Deleted == {id \in DocIds : IdRank(id) <= count.docs /\ id \notin DOMAIN catalog}

\* C19: when nothing is in flight, the list displayed holds no entry that a
\* deleteWebsite call has removed.
C19_DeletedNotDisplayed == Quiescent => Displayed \cap Deleted = {}

\* ---- C20: isDeleting
\* C20: while a deleteWebsite call for an entry is in flight, isDeleting is
\* the id of that entry.
C20_DeletingMarksInFlight == \A id \in DocIds : dels[id] > 0 => isDeleting = id

\* ---- C21: handleSubmit finishes
Finished == sub.pc \in {"Done", "Failed"} /\ ~isSubmitting /\ ~isUploadingVideo

\* C21: a handleSubmit invocation whose calls to the stores return or throw
\* finishes, and when it has finished, by whatever path, isSubmitting and
\* isUploadingVideo are false; isUploadingVideo is true only while the upload
\* is awaited.
C21_SubmitFinishes ==
    /\ [](sub.pc \in {"Idle", "Done", "Failed"} => ~isSubmitting /\ ~isUploadingVideo)
    /\ [](isUploadingVideo <=> sub.pc = "VideoUploading")
    /\ (isSubmitting ~> Finished)

\* finished after a save whose follow-up list load failed, as did the load of
\* the mount
C21_Witness ==
    /\ Finished
    /\ sub.pc = "Done"
    /\ run.hadVideo
    /\ run.save = "ok"
    /\ catalog # <<>>
    /\ websites = <<>>
    /\ \A l \in DOMAIN loads : loads[l].pc = "idle"
    /\ calls.thrown["getWebsites"] # {}

\* ---- C22: what a submission does to the form
\* a step of handleSubmit
SubmitActs == Starts \/ sub' # sub

\* a step in which saveWebsite returns to handleSubmit
SaveSucceeds == run.save # "ok" /\ run'.save = "ok"

\* C22: a step of handleSubmit that ends the submission in failure (missing
\* configuration, failed upload, failed save) leaves formData and videoFile
\* as they are; the only step of handleSubmit that changes either is the one
\* in which saveWebsite succeeds, which empties the form and clears the video.
C22_FailureKeepsForm ==
    [][SubmitActs =>
          /\ Phase(sub'.pc) = "Failed" => (formData' = formData /\ videoFile' = videoFile)
          /\ (formData' # formData \/ videoFile' # videoFile) => SaveSucceeds
          /\ SaveSucceeds => (formData' = EmptyForm /\ videoFile' = <<>>)]_vars

\* a submission with a video failed at the save; the form and the video are
\* those submitted
C22_Witness ==
    /\ sub.pc = "Failed"
    /\ run.hadVideo
    /\ run.upload = "ok"
    /\ run.save = "failed"
    /\ run.form # <<>>
    /\ formData = run.form[1]
    /\ formData.name # <<>>
    /\ videoFile = run.file
    /\ videoFile # <<>>

\* ---- C12: uploadedAt
\* C12 as stated: the uploadedAt of every document created is the reading of
\* the store's clock at creation.
C12_AsStated ==
    \A id \in DOMAIN calls.stamps \cap DOMAIN catalog :
       catalog[id].uploadedAt = calls.stamps[id].server

\* C12 amended: the uploadedAt of every document created is the reading of
\* the client's clock that saveWebsite itself took (Timestamp.now()) before it
\* sent the document, in the document sent as in the document stored.
C12_ClientClockStamp ==
    /\ \A id \in DOMAIN calls.stamps \cap DOMAIN catalog :
          catalog[id].uploadedAt = calls.stamps[id].client
    /\ sub.pc = "Persisting" =>
          sub.pending[1].uploadedAt = run.now[1]

C12_Witness ==
    \E id \in DOMAIN calls.stamps \cap DOMAIN catalog :
       /\ calls.stamps[id].client = 2
       /\ calls.stamps[id].server = 1
       /\ catalog[id].uploadedAt = 2
====
